---------------------------- MODULE Spec2Model ----------------------------
(***************************************************************************)
(* Othello: the rules engine (src/game.py, class OthelloGame) and the      *)
(* minimax search with alpha-beta pruning, move ordering and a             *)
(* transposition table (src/ai.py, class OthelloAI).                       *)
(*                                                                         *)
(* A board is board[r][c] with r, c in 0..7 and cells 0 (empty), 1 (black) *)
(* and 2 (white), as in the source.  The positional weights of ai.py are   *)
(* two-decimal numbers; they are kept here as integers, multiplied by 100, *)
(* so every score of the model is 100 times the exact decimal score of the *)
(* code, and math.inf is a number larger than any score.                   *)
(***************************************************************************)
EXTENDS Integers, Sequences, FiniteSets, TLC

VARIABLES
    board,           \* OthelloGame.board, the live board
    current_player,  \* OthelloGame.current_player
    applied,         \* number of moves applied to the live board since __init__
    tt,              \* OthelloAI.tt, the transposition table
    depth,           \* OthelloAI.depth (the difficulty given to __init__)
    has_helper,      \* whether OthelloGame has an attribute has_any_move_on_board
    scenario,        \* the game played before the first state: script and cut
    searches,        \* number of get_best_move calls made so far
    last,            \* the last call made and what it returned
    ui               \* the front end that runs the game, and its own state

vars == <<board, current_player, applied, tt, depth, has_helper, scenario, searches,
          last, ui>>

(***************************************************************************)
(* Program constants.                                                      *)
(***************************************************************************)
N == 8

Inf == 1000000

max_tt_size == 200000

Rng == 0 .. (N - 1)

Players == {1, 2}

None == <<>>

directions ==
    << <<-1, -1>>, <<-1, 0>>, <<-1, 1>>, <<0, -1>>,
       <<0, 1>>, <<1, -1>>, <<1, 0>>, <<1, 1>> >>

in_range(r, c) == 0 <= r /\ r < N /\ 0 <= c /\ c < N

\* board[i]: a negative index of a Python list counts from its end
list_index(i) == IF i < 0 THEN i + N ELSE i

\* board[i] raises IndexError
IndexError(i) == i < 0 - N \/ i >= N

\* for row in range(8): for col in range(8): the cells in row-major order
row_major == [k \in 1 .. (N * N) |-> <<(k - 1) \div N, (k - 1) % N>>]

\* OthelloGame.__init__: the start position
StartBoard ==
    [r \in Rng |-> [c \in Rng |->
        IF <<r, c>> \in {<<3, 3>>, <<4, 4>>} THEN 2
        ELSE IF <<r, c>> \in {<<3, 4>>, <<4, 3>>} THEN 1
        ELSE 0]]

(***************************************************************************)
(* The instance methods of OthelloGame, on self.board.                     *)
(***************************************************************************)
RECURSIVE scan_line(_, _, _, _, _, _, _)
\* the while loop of is_valid_move: TRUE when the line from (r, c) in direction
\* (dr, dc) runs through opponent discs and ends at a disc of player
scan_line(b, r, c, dr, dc, player, found_opponent) ==
    IF ~in_range(r, c) THEN FALSE
    ELSE IF b[r][c] = 3 - player
         THEN scan_line(b, r + dr, c + dc, dr, dc, player, TRUE)
    ELSE IF b[r][c] = player THEN found_opponent
    ELSE FALSE

is_valid_move(b, row, col, player) ==
    IF b[list_index(row)][list_index(col)] # 0 THEN FALSE
    ELSE \E i \in 1 .. Len(directions) :
            scan_line(b, row + directions[i][1], col + directions[i][2],
                      directions[i][1], directions[i][2], player, FALSE)

get_valid_moves(b, player) ==
    SelectSeq(row_major, LAMBDA m : is_valid_move(b, m[1], m[2], player))

RECURSIVE line_flips(_, _, _, _, _, _, _)
\* the while loop of make_move: the pieces_to_flip that get flipped in one
\* direction (none when the line ends at an empty cell or at the edge)
line_flips(b, r, c, dr, dc, player, pieces_to_flip) ==
    IF ~in_range(r, c) THEN <<>>
    ELSE IF b[r][c] = 3 - player
         THEN line_flips(b, r + dr, c + dc, dr, dc, player,
                         Append(pieces_to_flip, <<r, c>>))
    ELSE IF b[r][c] = player THEN pieces_to_flip
    ELSE <<>>

RECURSIVE flip_pieces(_, _, _, _)
flip_pieces(b, pieces, k, player) ==
    IF k > Len(pieces) THEN b
    ELSE flip_pieces([b EXCEPT ![pieces[k][1]][pieces[k][2]] = player],
                     pieces, k + 1, player)

RECURSIVE flip_directions(_, _, _, _, _)
\* for dr, dc in directions: of make_move, on the board as flipped so far
flip_directions(b, row, col, player, i) ==
    IF i > Len(directions) THEN b
    ELSE LET dr == directions[i][1]
             dc == directions[i][2]
             pieces == line_flips(b, row + dr, col + dc, dr, dc, player, <<>>)
         IN  flip_directions(flip_pieces(b, pieces, 1, player),
                             row, col, player, i + 1)

\* make_move without board[row][col] = player: the discs are flipped and the
\* move's own disc is never placed
make_move_without_disc(b, row, col, player) ==
    IF ~is_valid_move(b, row, col, player)
    THEN [ret |-> FALSE, board |-> b]
    ELSE [ret |-> TRUE, board |-> flip_directions(b, row, col, player, 1)]

\* make_move with a break after the first direction that flips
make_move_first_line_only(b, row, col, player) ==
    IF ~is_valid_move(b, row, col, player)
    THEN [ret |-> FALSE, board |-> b]
    ELSE LET placed == [b EXCEPT ![row][col] = player]
             flips(i) == line_flips(placed, row + directions[i][1],
                                    col + directions[i][2], directions[i][1],
                                    directions[i][2], player, <<>>)
             first == CHOOSE i \in 1 .. Len(directions) :
                         /\ flips(i) # <<>>
                         /\ \A j \in 1 .. (i - 1) : flips(j) = <<>>
         IN  [ret |-> TRUE, board |-> flip_pieces(placed, flips(first), 1, player)]

\* make_move returns False and changes nothing, or applies the move and
\* returns True
\* make_move without the is_valid_move test: every move asked for is applied
make_move_unchecked(b, row, col, player) ==
    [ret |-> TRUE,
     board |-> flip_directions([b EXCEPT ![row][col] = player],
                               row, col, player, 1)]

make_move(b, row, col, player) ==
    IF ~is_valid_move(b, row, col, player)
    THEN [ret |-> FALSE, board |-> b]
    ELSE [ret |-> TRUE,
          board |-> flip_directions(
                       [b EXCEPT ![list_index(row)][list_index(col)] = player],
                       row, col, player, 1)]

\* is_game_over with "or" for "and"
is_game_over_either(b) ==
    LET black_moves == get_valid_moves(b, 1)
        white_moves == get_valid_moves(b, 2)
    IN  Len(black_moves) = 0 \/ Len(white_moves) = 0

is_game_over(b) ==
    LET black_moves == get_valid_moves(b, 1)
        white_moves == get_valid_moves(b, 2)
    IN  Len(black_moves) = 0 /\ Len(white_moves) = 0

\* row.count(value)
RECURSIVE count(_, _, _)
count(row, value, c) ==
    IF c = N THEN 0
    ELSE (IF row[c] = value THEN 1 ELSE 0) + count(row, value, c + 1)

\* sum(row.count(value) for row in self.board)
RECURSIVE sum_count(_, _, _)
sum_count(b, value, r) ==
    IF r = N THEN 0 ELSE count(b[r], value, 0) + sum_count(b, value, r + 1)

\* get_winner that gives a tie to black
get_winner_black_on_tie(b) ==
    LET black_count == sum_count(b, 1, 0)
        white_count == sum_count(b, 2, 0)
    IN  IF black_count >= white_count THEN 1
        ELSE IF white_count > black_count THEN 2
        ELSE 0

get_winner(b) ==
    LET black_count == sum_count(b, 1, 0)
        white_count == sum_count(b, 2, 0)
    IN  IF black_count > white_count THEN 1
        ELSE IF white_count > black_count THEN 2
        ELSE 0

(***************************************************************************)
(* The static helpers of OthelloGame, on any board.                        *)
(***************************************************************************)
RECURSIVE scan_line_on_board_own_disc(_, _, _, _, _, _, _)
\* the while loop without 'if found_opponent': a line that ends at a disc of
\* player counts, opponent discs in between or not
scan_line_on_board_own_disc(b, r, c, dr, dc, player, found_opponent) ==
    IF ~in_range(r, c) THEN FALSE
    ELSE IF b[r][c] = 3 - player
         THEN scan_line_on_board_own_disc(b, r + dr, c + dc, dr, dc, player, TRUE)
    ELSE b[r][c] = player

RECURSIVE scan_line_on_board(_, _, _, _, _, _, _)
scan_line_on_board(b, r, c, dr, dc, player, found_opponent) ==
    IF ~in_range(r, c) THEN FALSE
    ELSE IF b[r][c] = 3 - player
         THEN scan_line_on_board(b, r + dr, c + dc, dr, dc, player, TRUE)
    ELSE IF b[r][c] = player THEN found_opponent
    ELSE FALSE

is_valid_move_on_board(b, row, col, player) ==
    IF b[row][col] # 0 THEN FALSE
    ELSE \E i \in 1 .. Len(directions) :
            scan_line_on_board(b, row + directions[i][1], col + directions[i][2],
                               directions[i][1], directions[i][2], player, FALSE)

\* get_valid_moves_on_board with the two loops exchanged: column by column
get_valid_moves_on_board_by_column(b, player) ==
    SelectSeq([k \in 1 .. (N * N) |-> <<(k - 1) % N, (k - 1) \div N>>],
              LAMBDA m : is_valid_move_on_board(b, m[1], m[2], player))

\* get_valid_moves_on_board with range(7) for the rows
get_valid_moves_on_board_short(b, player) ==
    SelectSeq(SubSeq(row_major, 1, N * (N - 1)),
              LAMBDA m : is_valid_move_on_board(b, m[1], m[2], player))

get_valid_moves_on_board(b, player) ==
    SelectSeq(row_major, LAMBDA m : is_valid_move_on_board(b, m[1], m[2], player))

RECURSIVE line_flips_on_board(_, _, _, _, _, _, _)
line_flips_on_board(b, r, c, dr, dc, player, pieces_to_flip) ==
    IF ~in_range(r, c) THEN <<>>
    ELSE IF b[r][c] = 3 - player
         THEN line_flips_on_board(b, r + dr, c + dc, dr, dc, player,
                                  Append(pieces_to_flip, <<r, c>>))
    ELSE IF b[r][c] = player THEN pieces_to_flip
    ELSE <<>>

RECURSIVE flip_directions_on_board(_, _, _, _, _)
flip_directions_on_board(b, row, col, player, i) ==
    IF i > Len(directions) THEN b
    ELSE LET dr == directions[i][1]
             dc == directions[i][2]
             pieces == line_flips_on_board(b, row + dr, col + dc, dr, dc,
                                           player, <<>>)
         IN  flip_directions_on_board(flip_pieces(b, pieces, 1, player),
                                      row, col, player, i + 1)

\* simulate_move_on_board copies the board, places the disc without asking
\* is_valid_move_on_board, flips, and returns the copy; it never raises
simulate_move_on_board(b, row, col, player) ==
    [raised |-> FALSE,
     board |-> flip_directions_on_board([b EXCEPT ![row][col] = player],
                                        row, col, player, 1)]

\* The same call on objects.  A board is a list of eight row lists: heap is
\* the sequence of the row lists that exist, a board refers to its rows by
\* their places in it.
Alloc(b) == [i \in 1 .. N |-> b[i - 1]]

Deref(heap, board_ref) == [r \in Rng |-> heap[board_ref[r]]]

\* list(board): a new outer list over the same row lists
copy_shares_rows(heap, board_ref) == [heap |-> heap, ref |-> board_ref]

\* copy.deepcopy(board): eight new row lists with the same cells
deepcopy(heap, board_ref) ==
    [heap |-> heap \o [i \in 1 .. N |-> heap[board_ref[i - 1]]],
     ref |-> [r \in Rng |-> Len(heap) + r + 1]]

\* new_board[..][..] = player: every write of the call goes to a row of
\* new_board
write_rows(heap, new_board, b) ==
    SubSeq([id \in 1 .. Len(heap) |->
               IF \E r \in Rng : new_board[r] = id
               THEN b[CHOOSE r \in Rng : new_board[r] = id]
               ELSE heap[id]], 1, Len(heap))

\* the body of simulate_move_on_board on the copy: the disc and the flips are
\* written to the rows of new_board, and new_board is returned
write_new_board(copied, row, col, player) ==
    CHOOSE o \in
        {[heap |-> write_rows(copied.heap, copied.ref, written),
          ret |-> copied.ref] :
            written \in {simulate_move_on_board(b, row, col, player).board :
                            b \in {Deref(copied.heap, copied.ref)}}} : TRUE

\* a simulate_move_on_board without the copy: the move is written to the rows
\* of the board it was given
simulate_move_on_board_in_place(heap, board_ref, row, col, player) ==
    write_new_board([heap |-> heap, ref |-> board_ref], row, col, player)

\* simulate_move_on_board(board, row, col, player) with board the object
\* board_ref: the row lists after the call and the object returned
simulate_move_on_board_objects(heap, board_ref, row, col, player) ==
    CHOOSE o \in {write_new_board(copied, row, col, player) :
                    copied \in {deepcopy(heap, board_ref)}} : TRUE


(***************************************************************************)
(* OthelloAI (src/ai.py).                                                  *)
(***************************************************************************)
\* self.weight_matrix, every entry multiplied by 100: scores are exact
\* hundredths here.  The program adds binary floating-point numbers, so two
\* scores that are equal here can differ there in the last bits; scores that
\* differ here differ there.
weight_matrix ==
    << << 1616, -303,  99,  43,  43,  99, -303, 1616>>,
       <<-412, -181,  -8, -27, -27,  -8, -181, -412>>,
       << 133,   -4,  51,   7,   7,  51,   -4,  133>>,
       <<  63,  -18,  -4,  -1,  -1,  -4,  -18,   63>>,
       <<  63,  -18,  -4,  -1,  -1,  -4,  -18,   63>>,
       << 133,   -4,  51,   7,   7,  51,   -4,  133>>,
       <<-412, -181,  -8, -27, -27,  -8, -181, -412>>,
       << 1616, -303,  99,  43,  43,  99, -303, 1616>> >>

\* wm[mv[0]][mv[1]]
weight(r, c) == weight_matrix[r + 1][c + 1]

\* _board_key: bytes(board[i][j] for i in range(8) for j in range(8))
board_key(b) == [k \in 1 .. (N * N) |-> b[(k - 1) \div N][(k - 1) % N]]

RECURSIVE evaluate_from(_, _, _)
evaluate_from(b, player, k) ==
    IF k > N * N THEN 0
    ELSE LET i == (k - 1) \div N
             j == (k - 1) % N
             v == b[i][j]
         IN  (IF v = player THEN weight(i, j)
              ELSE IF v = 3 - player THEN 0 - weight(i, j)
              ELSE 0) + evaluate_from(b, player, k + 1)

\* evaluate(board, player): weights of player's discs minus the opponent's
evaluate(b, player) == evaluate_from(b, player, 1)

\* OthelloGame.has_any_move_on_board is called by is_terminal and defined
\* nowhere in the repository; this is has_any_move of the specification
has_any_move_on_board(b, player) ==
    \E k \in 1 .. (N * N) :
        is_valid_move_on_board(b, row_major[k][1], row_major[k][2], player)

\* is_terminal(board): the attribute lookup raises AttributeError unless
\* OthelloGame has the helper
is_terminal(b) ==
    IF ~has_helper THEN [raised |-> TRUE, ret |-> FALSE]
    ELSE [raised |-> FALSE,
          ret |-> ~(has_any_move_on_board(b, 1) \/ has_any_move_on_board(b, 2))]

get_valid_moves_from_board(b, player) == get_valid_moves_on_board(b, player)

simulate_move(b, move, player) ==
    simulate_move_on_board(b, move[1], move[2], player).board

\* list.sort is stable, also with reverse=True: a move goes behind every move
\* that is at least as good as it under the node's order
goes_before(m, x, is_maximizing) ==
    IF is_maximizing THEN weight(m[1], m[2]) > weight(x[1], x[2])
    ELSE weight(m[1], m[2]) < weight(x[1], x[2])

RECURSIVE insert_move(_, _, _)
insert_move(sorted, m, is_maximizing) ==
    IF sorted = <<>> THEN <<m>>
    ELSE IF goes_before(m, Head(sorted), is_maximizing) THEN <<m>> \o sorted
    ELSE <<Head(sorted)>> \o insert_move(Tail(sorted), m, is_maximizing)

RECURSIVE sort_moves_from(_, _, _, _)
sort_moves_from(moves, k, sorted, is_maximizing) ==
    IF k > Len(moves) THEN sorted
    ELSE sort_moves_from(moves, k + 1,
                         insert_move(sorted, moves[k], is_maximizing),
                         is_maximizing)

\* valid_moves.sort(key=weight, reverse=is_maximizing)
sort_moves(moves, is_maximizing) == sort_moves_from(moves, 1, <<>>, is_maximizing)

EmptyTT == [k \in {} |-> <<0, None>>]

\* The entries a long session left for positions that no search of a run
\* reaches again are not kept one by one: the key Elsewhere, which is the key
\* of no position, holds their number where a score would be.
Elsewhere == <<<<>>, 0, 0, FALSE>>

\* len(self.tt)
len(t) ==
    IF Elsewhere \in DOMAIN t
    THEN Cardinality(DOMAIN t) - 1 + t[Elsewhere][1]
    ELSE Cardinality(DOMAIN t)

\* tt_store that clears as soon as the table is full
tt_store_clear_at_capacity(t, tt_key, res) ==
    LET kept == IF len(t) >= max_tt_size THEN EmptyTT ELSE t
    IN  [k \in (DOMAIN kept) \cup {tt_key} |->
            IF k = tt_key THEN res ELSE kept[k]]

\* if len(self.tt) > self.max_tt_size: self.tt.clear(); self.tt[tt_key] = res
tt_store(t, tt_key, res) ==
    LET kept == IF len(t) > max_tt_size THEN EmptyTT ELSE t
    IN  [k \in (DOMAIN kept) \cup {tt_key} |->
            IF k = tt_key THEN res ELSE kept[k]]

\* What a minimax call leaves behind: the (score, move) it returns, or raised;
\* the table after it; and evals, the players whose perspective a static
\* evaluation of this call tree was taken from
Returned(score, move, t, evals) ==
    [raised |-> FALSE, score |-> score, move |-> move, tt |-> t, evals |-> evals]

Raised(t, evals) ==
    [raised |-> TRUE, score |-> 0, move |-> None, tt |-> t, evals |-> evals]

\* val = self.evaluate(board, player); res = (val, None); store; return res
cutoff(t, tt_key, b, player) ==
    LET val == evaluate(b, player)
    IN  Returned(val, None, tt_store(t, tt_key, <<val, None>>), {player})

RECURSIVE minimax(_, _, _, _, _, _, _)
RECURSIVE move_loop(_, _, _, _, _, _, _, _, _, _, _, _)
RECURSIVE move_loop_last_wins(_, _, _, _, _, _, _, _, _, _, _, _)

\* move_loop where a later move with an equal score replaces best_move
move_loop_last_wins(t, b, d, player, alpha, beta, is_maximizing, valid_moves, k, best_eval, best_move, evals) ==
    IF k > Len(valid_moves) THEN Returned(best_eval, best_move, t, evals)
    ELSE
      LET move == valid_moves[k]
          new_board == simulate_move(b, move, player)
          r == minimax(t, new_board, d - 1, 3 - player, alpha, beta,
                       ~is_maximizing)
          better == IF is_maximizing THEN r.score >= best_eval
                    ELSE r.score <= best_eval
          eval1 == IF better THEN r.score ELSE best_eval
          move1 == IF better THEN move ELSE best_move
          alpha1 == IF is_maximizing /\ r.score > alpha THEN r.score ELSE alpha
          beta1 == IF ~is_maximizing /\ r.score < beta THEN r.score ELSE beta
      IN  IF r.raised THEN Raised(r.tt, evals \cup r.evals)
          ELSE IF beta1 <= alpha1
               THEN Returned(eval1, move1, r.tt, evals \cup r.evals)
          ELSE move_loop_last_wins(r.tt, b, d, player, alpha1, beta1,
                                   is_maximizing, valid_moves, k + 1, eval1,
                                   move1, evals \cup r.evals)

\* for move in valid_moves: of the maximizing (is_maximizing) or minimizing
\* branch, from move k on, with best_eval = max_eval or min_eval so far
move_loop(t, b, d, player, alpha, beta, is_maximizing, valid_moves, k, best_eval, best_move, evals) ==
    IF k > Len(valid_moves) THEN Returned(best_eval, best_move, t, evals)
    ELSE
      LET move == valid_moves[k]
          new_board == simulate_move(b, move, player)
          r == minimax(t, new_board, d - 1, 3 - player, alpha, beta,
                       ~is_maximizing)
          better == IF is_maximizing THEN r.score > best_eval
                    ELSE r.score < best_eval
          eval1 == IF better THEN r.score ELSE best_eval
          move1 == IF better THEN move ELSE best_move
          alpha1 == IF is_maximizing /\ r.score > alpha THEN r.score ELSE alpha
          beta1 == IF ~is_maximizing /\ r.score < beta THEN r.score ELSE beta
      IN  IF r.raised THEN Raised(r.tt, evals \cup r.evals)
          ELSE IF beta1 <= alpha1
               THEN Returned(eval1, move1, r.tt, evals \cup r.evals)
          ELSE move_loop(r.tt, b, d, player, alpha1, beta1, is_maximizing,
                         valid_moves, k + 1, eval1, move1, evals \cup r.evals)

minimax(t, b, d, player, alpha, beta, is_maximizing) ==
    LET tt_key == <<board_key(b), player, d, is_maximizing>>
    IN  IF tt_key \in DOMAIN t
        THEN Returned(t[tt_key][1], t[tt_key][2], t, {})
        ELSE IF d = 0 THEN cutoff(t, tt_key, b, player)
        ELSE
          LET term == is_terminal(b)
          IN  IF term.raised THEN Raised(t, {})
              ELSE IF term.ret THEN cutoff(t, tt_key, b, player)
              ELSE
                LET valid_moves ==
                        sort_moves(get_valid_moves_from_board(b, player),
                                   is_maximizing)
                IN  IF valid_moves = <<>>
                    THEN LET r == minimax(t, b, d - 1, 3 - player, alpha, beta,
                                          ~is_maximizing)
                         IN  IF r.raised THEN r
                             ELSE Returned(r.score, None, r.tt, r.evals)
                    ELSE
                      LET l == move_loop(t, b, d, player, alpha, beta,
                                         is_maximizing, valid_moves, 1,
                                         IF is_maximizing THEN 0 - Inf ELSE Inf,
                                         None, {})
                      IN  IF l.raised THEN l
                          ELSE Returned(l.score, l.move,
                                        tt_store(l.tt, tt_key,
                                                 <<l.score, l.move>>),
                                        l.evals)

\* get_best_move(player): minimax on the live board with the instance's depth
get_best_move(t, b, d, player) == minimax(t, b, d, player, 0 - Inf, Inf, TRUE)

\* self.game.board: the object get_best_move hands to minimax, rows 1 .. N of
\* the heap
game_board == [r \in Rng |-> r + 1]

RECURSIVE explore_objects(_, _, _, _)
RECURSIVE explore_moves(_, _, _, _, _, _)
\* the move loop of minimax on the object board_ref: every move is simulated
\* on a copy and the copy is searched
explore_moves(heap, board_ref, d, player, moves, k) ==
    IF k > Len(moves) THEN heap
    ELSE CHOOSE after \in
             {explore_moves(below, board_ref, d, player, moves, k + 1) :
                below \in {explore_objects(o.heap, o.ret, d - 1, 3 - player) :
                             o \in {simulate_move_on_board_objects(heap, board_ref, moves[k][1], moves[k][2], player)}}} : TRUE

\* one call of minimax on the object board_ref whose cells are b
explore_position(heap, board_ref, b, d, player) ==
    CHOOSE after \in
        {IF term.raised \/ term.ret THEN heap
         ELSE IF moves = <<>> THEN explore_objects(heap, board_ref, d - 1, 3 - player)
              ELSE explore_moves(heap, board_ref, d, player, moves, 1) :
            term \in {is_terminal(b)},
            moves \in {get_valid_moves_from_board(b, player)}} : TRUE

\* the row lists after minimax(board_ref, d, ...) has returned
explore_objects(heap, board_ref, d, player) ==
    IF d = 0 THEN heap
    ELSE CHOOSE after \in {explore_position(heap, board_ref, b, d, player) :
                             b \in {Deref(heap, board_ref)}} : TRUE

\* game.board after get_best_move(player) of an OthelloAI of difficulty d
board_after_search(b, d, player) ==
    CHOOSE after \in {Deref(explore_objects(heap, game_board, d, player), game_board) :
                        heap \in {Alloc(b)}} : TRUE

(***************************************************************************)
(* Bounds of the model, and the games played before the first state.       *)
(***************************************************************************)
\* moves entered after the first state
MaxMoves == 2

\* calls of get_best_move in one run
MaxSearches == 2

\* largest search depth (difficulty) of an endgame case
MaxDepth == 4

\* largest search depth of a case that starts at the start position
OpeningDepth == 1

\* Three complete games, move by move <<row, col, player>>, played from the start
\* position as play_terminal plays them (a player without a move is skipped).
ScriptA ==
    << <<2, 3, 1>>, <<2, 2, 2>>, <<3, 2, 1>>, <<4, 2, 2>>, <<4, 1, 1>>, <<2, 5, 2>>,
       <<1, 1, 1>>, <<3, 1, 2>>, <<2, 1, 1>>, <<1, 0, 2>>, <<4, 5, 1>>, <<5, 0, 2>>,
       <<2, 4, 1>>, <<0, 1, 2>>, <<4, 0, 1>>, <<5, 5, 2>>, <<5, 4, 1>>, <<1, 3, 2>>,
       <<2, 6, 1>>, <<3, 0, 2>>, <<6, 6, 1>>, <<1, 5, 2>>, <<2, 0, 1>>, <<3, 7, 2>>,
       <<0, 5, 1>>, <<1, 4, 2>>, <<0, 4, 1>>, <<0, 6, 2>>, <<2, 7, 1>>, <<0, 3, 2>>,
       <<0, 0, 1>>, <<5, 6, 2>>, <<1, 2, 1>>, <<7, 6, 2>>, <<3, 5, 1>>, <<6, 5, 2>>,
       <<0, 2, 1>>, <<5, 3, 2>>, <<0, 7, 1>>, <<1, 7, 2>>, <<6, 7, 1>>, <<4, 7, 2>>,
       <<5, 2, 1>>, <<4, 6, 2>>, <<7, 7, 1>>, <<6, 3, 2>>, <<6, 4, 1>>, <<6, 2, 2>>,
       <<7, 5, 1>>, <<7, 4, 2>>, <<6, 0, 1>>, <<5, 1, 2>>, <<1, 6, 1>>, <<7, 3, 1>>,
       <<7, 1, 2>>, <<6, 1, 1>>, <<7, 2, 2>>, <<7, 0, 1>>, <<3, 6, 1>>, <<5, 7, 2>> >>

ScriptB ==
    << <<5, 4, 1>>, <<5, 3, 2>>, <<3, 2, 1>>, <<5, 5, 2>>, <<6, 3, 1>>, <<2, 1, 2>>,
       <<6, 6, 1>>, <<7, 2, 2>>, <<3, 1, 1>>, <<2, 4, 2>>, <<1, 5, 1>>, <<6, 2, 2>>,
       <<3, 5, 1>>, <<1, 4, 2>>, <<1, 3, 1>>, <<2, 6, 2>>, <<3, 7, 1>>, <<0, 2, 2>>,
       <<6, 5, 1>>, <<5, 2, 2>>, <<3, 6, 1>>, <<2, 2, 2>>, <<7, 1, 1>>, <<7, 7, 2>>,
       <<1, 0, 1>>, <<4, 5, 2>>, <<5, 1, 1>>, <<2, 5, 2>>, <<6, 7, 1>>, <<7, 6, 2>>,
       <<1, 2, 1>>, <<2, 7, 2>>, <<7, 3, 1>>, <<1, 1, 2>>, <<4, 2, 1>>, <<0, 5, 2>>,
       <<0, 0, 1>>, <<4, 7, 2>>, <<1, 7, 1>>, <<6, 1, 2>>, <<5, 6, 1>>, <<5, 7, 2>>,
       <<0, 4, 1>>, <<4, 1, 2>>, <<6, 0, 1>>, <<7, 4, 2>>, <<7, 5, 1>>, <<6, 4, 2>>,
       <<1, 6, 1>>, <<0, 6, 2>>, <<4, 0, 1>>, <<5, 0, 2>>, <<0, 7, 1>>, <<2, 0, 2>>,
       <<3, 0, 1>>, <<0, 3, 2>>, <<0, 1, 1>>, <<2, 3, 2>>, <<4, 6, 1>>, <<7, 0, 2>> >>

\* nine moves after which white has no disc left
ScriptC ==
    << <<5, 4, 1>>, <<3, 5, 2>>, <<2, 4, 1>>, <<5, 5, 2>>, <<4, 6, 1>>, <<5, 3, 2>>,
       <<6, 4, 1>>, <<4, 5, 2>>, <<4, 2, 1>> >>

Scripts == <<ScriptA, ScriptB, ScriptC>>

RECURSIVE Play(_, _, _, _)
\* the board after moves k .. cut of a script, each applied with make_move
Play(b, script, k, cut) ==
    IF k > cut THEN b
    ELSE LET r == make_move(b, script[k][1], script[k][2], script[k][3])
         IN  IF r.ret THEN Play(r.board, script, k + 1, cut) ELSE b

ScenarioBoard(sc) == Play(StartBoard, Scripts[sc.script], 1, sc.cut)

\* the player the loop turns to after the last scripted move
ScenarioPlayer(sc) ==
    IF sc.cut = 0 THEN 1 ELSE 3 - Scripts[sc.script][sc.cut][3]

\* The games the rules engine is looked at in: the start position; the first
\* game with five empty cells left, and with two left where the player to move
\* has to be skipped; the second game with eight empty cells left; the third
\* game one move before it can end with 51 cells empty.
Cuts ==
    {[script |-> 1, cut |-> 0], [script |-> 1, cut |-> 55],
     [script |-> 1, cut |-> 58], [script |-> 2, cut |-> 52],
     [script |-> 3, cut |-> 8]}

\* The games a search is looked at in: the start position and the third game
\* at its end (opening: most cells empty), and the first two games near their
\* end (endgame).
SearchCuts ==
    {[script |-> 1, cut |-> 0], [script |-> 3, cut |-> 9],
     [script |-> 1, cut |-> 55], [script |-> 1, cut |-> 57],
     [script |-> 2, cut |-> 55]}

Opening(sc) == sc.cut < 30

(***************************************************************************)
(* The state machine.                                                      *)
(***************************************************************************)
NoBoard == <<>>

\* the record kept of a call: what was called with what, and what came back
Call(op, player, row, col, pre, ret, out, r) ==
    [op |-> op, player |-> player, row |-> row, col |-> col, pre |-> pre,
     ret |-> ret, out |-> out, raised |-> r.raised, score |-> r.score,
     move |-> r.move, evals |-> r.evals, arg |-> NoBoard, shared |-> FALSE,
     searched |-> NoBoard]

NoSearch == [raised |-> FALSE, score |-> 0, move |-> None, evals |-> {}]

NoCall == Call("none", 0, 0, 0, NoBoard, FALSE, NoBoard, NoSearch)

\* no front end: the classes are called directly
NoUI ==
    [kind |-> "none", ai_player |-> 0, animating |-> FALSE, after_move |-> 0,
     make_ai_move |-> 0]

InitCommon ==
    /\ board = ScenarioBoard(scenario)
    /\ current_player = ScenarioPlayer(scenario)
    /\ applied = scenario.cut
    /\ tt = EmptyTT
    /\ searches = 0
    /\ last = NoCall

\* The rules engine under its callers; no OthelloAI is built (play_terminal).
Init ==
    /\ scenario \in Cuts
    /\ depth = 0
    /\ has_helper = FALSE
    /\ ui = NoUI
    /\ InitCommon

\* An OthelloAI of some difficulty beside the game.  has_helper = FALSE is the
\* repository as it is; TRUE is OthelloGame completed with has_any_move_on_board.
\* The difficulty is whatever the caller gives, also negative; a negative
\* depth is looked at near the end of a game only, where the search ends.
InitSearch ==
    /\ scenario \in SearchCuts
    /\ depth \in (IF Opening(scenario) THEN 0 ELSE 0 - 1)
                  .. (IF Opening(scenario) THEN OpeningDepth ELSE MaxDepth)
    /\ has_helper \in BOOLEAN
    /\ ui = NoUI
    /\ InitCommon

\* moves are followed for MaxMoves moves from the cut; the third game, which
\* is there for its last move, the one that leaves white without a disc, for
\* that move only
MoreMoves ==
    applied - scenario.cut < (IF scenario.script = 3 THEN 1 ELSE MaxMoves)

\* play_terminal / play_vs_ai loop: the player to move has no valid move
SkipTurn ==
    /\ ~is_game_over(board)
    /\ get_valid_moves(board, current_player) = <<>>
    /\ current_player' = 3 - current_player
    /\ last' = Call("skip", current_player, 0, 0, board, FALSE, board, NoSearch)
    /\ UNCHANGED <<board, applied, tt, depth, has_helper, scenario, searches, ui>>

\* play_terminal / play_vs_ai loop: the game is not over and the player to move
\* has a valid move, so the loop asks for one
Prompting ==
    /\ MoreMoves
    /\ ~is_game_over(board)
    /\ get_valid_moves(board, current_player) # <<>>

\* the player to move enters (row, col): make_move applies it and the turn
\* passes, or refuses it and the loop asks again
EnterMove(row, col) ==
    /\ \E r \in {make_move(board, row, col, current_player)} :
           /\ board' = r.board
           /\ current_player' = IF r.ret THEN 3 - current_player ELSE current_player
           /\ applied' = IF r.ret THEN applied + 1 ELSE applied
           /\ last' = Call("make_move", current_player, row, col, board, r.ret,
                           r.board, NoSearch)
    /\ UNCHANGED <<tt, depth, has_helper, scenario, searches, ui>>

\* a call of OthelloGame.simulate_move_on_board on the live board
SimulateMove(row, col, player) ==
    /\ \E r \in {simulate_move_on_board(board, row, col, player)},
          o \in {simulate_move_on_board_objects(Alloc(board), game_board,
                                                row, col, player)} :
           /\ board' = Deref(o.heap, game_board)
           /\ last' = [Call("simulate_move_on_board", player, row, col, board,
                            ~r.raised, Deref(o.heap, o.ret), NoSearch)
                          EXCEPT !.arg = Deref(o.heap, game_board),
                                 !.shared = \E r1, r2 \in Rng :
                                                o.ret[r1] = game_board[r2]]
    /\ UNCHANGED <<current_player, applied, tt, depth, has_helper, scenario,
                   searches, ui>>

\* a call of OthelloAI.get_best_move(player) on the live board
GetBestMove(player) ==
    /\ searches < MaxSearches
    /\ searches' = searches + 1
    /\ \E r \in {get_best_move(tt, board, depth, player)} :
           /\ tt' = r.tt
           /\ last' = Call("get_best_move", player, 0, 0, board, ~r.raised,
                           board, r)
    /\ UNCHANGED <<board, current_player, applied, depth, has_helper, scenario, ui>>

\* A call that changes no program state (a simulated move, a refused move) is
\* looked at in the state right after it.  The run is not followed past a
\* simulated move, and no move is simulated right after a refused one: every
\* program state that would follow is reached without that call as well.
Reported == last.op = "simulate_move_on_board"

Refused == last.op = "make_move" /\ ~last.ret

Next ==
    \/ ~Reported /\ SkipTurn
    \/ ~Reported /\ Prompting /\ \E row \in Rng, col \in Rng : EnterMove(row, col)
    \/ ~Reported /\ ~Refused /\ MoreMoves /\ \E row \in Rng, col \in Rng, player \in Players :
            SimulateMove(row, col, player)

Spec == Init /\ [][Next]_vars

\* what is entered beside a search: the legal moves
SearchInputs ==
    UNION {{valid_moves[k] : k \in 1 .. Len(valid_moves)} :
             valid_moves \in {get_valid_moves(board, current_player)}}

NextSearch ==
    \/ SkipTurn
    \/ Prompting /\ \E m \in SearchInputs : EnterMove(m[1], m[2])
    \/ \E player \in Players : GetBestMove(player)

SpecSearch == InitSearch /\ [][NextSearch]_vars

(***************************************************************************)
(* Claims about the rules engine, under Spec.                              *)
(***************************************************************************)
Elems(seq) == {seq[k] : k \in 1 .. Len(seq)}

Cells == Rng \X Rng

Discs(b) == Cardinality({m \in Cells : b[m[1]][m[2]] # 0})

DiscsOf(b, player) == Cardinality({m \in Cells : b[m[1]][m[2]] = player})

\* a move was applied: make_move returned True, or simulate_move_on_board was
\* called with a move that is_valid_move_on_board accepts
AppliedLegal ==
    \/ last.op = "make_move" /\ last.ret
    \/ /\ last.op = "simulate_move_on_board"
       /\ is_valid_move_on_board(last.pre, last.row, last.col, last.player)

\* C2 (legality symmetry): on every board, for both players and every cell,
\* is_valid_move_on_board holds of the cell iff the cell is in
\* get_valid_moves_on_board, and is_valid_move iff it is in get_valid_moves.
C2_LegalitySymmetry ==
    \A player \in Players :
        \A on_board \in {Elems(get_valid_moves_on_board(board, player))},
           moves \in {Elems(get_valid_moves(board, player))} :
            \A m \in Cells :
                /\ is_valid_move_on_board(board, m[1], m[2], player) <=> m \in on_board
                /\ is_valid_move(board, m[1], m[2], player) <=> m \in moves

\* a board some moves into a game where a player has legal moves, empty cells
\* that are not legal, and the two players' legal moves differ
C2_Witness ==
    /\ applied > scenario.cut
    /\ get_valid_moves_on_board(board, 1) # <<>>
    /\ get_valid_moves_on_board(board, 1) # get_valid_moves_on_board(board, 2)
    /\ \E m \in Cells : /\ board[m[1]][m[2]] = 0
                        /\ ~is_valid_move_on_board(board, m[1], m[2], 1)

\* C3 (disc conservation): an applied legal move, by make_move or by
\* simulate_move_on_board, leaves exactly one disc more and empties no cell;
\* after n applied moves the live board holds 4 + n discs.
C3_DiscConservation ==
    /\ AppliedLegal =>
          /\ Discs(last.out) = Discs(last.pre) + 1
          /\ \A m \in Cells : last.pre[m[1]][m[2]] # 0 => last.out[m[1]][m[2]] # 0
    /\ Discs(board) = 4 + applied

\* make_move has applied a move that flipped at least two discs
C3_Witness ==
    /\ last.op = "make_move" /\ last.ret
    /\ applied > scenario.cut
    /\ DiscsOf(last.out, last.player) >= DiscsOf(last.pre, last.player) + 3

\* cell m is an opponent disc on a line that runs from (row, col) through
\* opponent discs only and ends at a disc of player
Bracketed(b, row, col, player, m) ==
    \E i \in 1 .. Len(directions), k \in 1 .. N, n \in 1 .. N :
        LET dr == directions[i][1]
            dc == directions[i][2]
        IN  /\ k <= n
            /\ m = <<row + k * dr, col + k * dc>>
            /\ in_range(row + (n + 1) * dr, col + (n + 1) * dc)
            /\ b[row + (n + 1) * dr][col + (n + 1) * dc] = player
            /\ \A j \in 1 .. n : b[row + j * dr][col + j * dc] = 3 - player

\* C4 (what a move changes): an applied legal move (row, col) of player p
\* makes (row, col) and every bracketed opponent disc p and leaves every other
\* cell as it was; from the start position (2, 3) for player 1 flips only
\* (3, 3), which leaves 4 discs of player 1 and 1 disc of player 2.
C4_MoveChangesExactlyBracketed ==
    /\ AppliedLegal =>
          \A m \in Cells :
              last.out[m[1]][m[2]] =
                  IF m = <<last.row, last.col>> THEN last.player
                  ELSE IF Bracketed(last.pre, last.row, last.col, last.player, m)
                       THEN last.player
                  ELSE last.pre[m[1]][m[2]]
    /\ (/\ last.op \in {"make_move", "simulate_move_on_board"}
        /\ last.pre = StartBoard
        /\ <<last.row, last.col, last.player>> = <<2, 3, 1>>) =>
          /\ last.out = [StartBoard EXCEPT ![2][3] = 1, ![3][3] = 1]
          /\ DiscsOf(last.out, 1) = 4
          /\ DiscsOf(last.out, 2) = 1

\* a move was applied that flipped discs in two directions at least and left
\* a neighbouring opponent disc, on a line that is not bracketed, unflipped
C4_Witness ==
    /\ AppliedLegal
    /\ DiscsOf(last.out, last.player) >= DiscsOf(last.pre, last.player) + 3
    /\ \E i \in 1 .. Len(directions) :
          LET r == last.row + directions[i][1]
              c == last.col + directions[i][2]
          IN  /\ in_range(r, c)
              /\ last.pre[r][c] = 3 - last.player
              /\ last.out[r][c] = 3 - last.player

\* C8 (no silent illegal simulation): simulate_move_on_board called with a
\* move that is_valid_move_on_board rejects signals an error and returns no
\* board with the disc placed.
C8_IllegalSimulationRefused ==
    (/\ last.op = "simulate_move_on_board"
     /\ ~is_valid_move_on_board(last.pre, last.row, last.col, last.player)) =>
        /\ ~last.ret
        /\ last.out = last.pre

\* C9 (terminal correctness of the game): is_game_over() is true iff
\* get_valid_moves(1) and get_valid_moves(2) are both empty.
C9_GameOverIffNoMoves ==
    is_game_over(board) <=>
        (get_valid_moves(board, 1) = <<>> /\ get_valid_moves(board, 2) = <<>>)

\* a move has ended a game on a board that still has empty cells
C9_Witness ==
    /\ last.op = "make_move" /\ last.ret
    /\ is_game_over(board)
    /\ \E m \in Cells : board[m[1]][m[2]] = 0

(***************************************************************************)
(* Claims about the search, under SpecSearch.                              *)
(***************************************************************************)
Searched == last.op = "get_best_move"

\* C1 (returned move is legal): get_best_move returns None only when the
\* player has no legal move on the board, and every move it returns is one of
\* get_valid_moves_on_board(board, player).
C1_ReturnedMoveIsLegal ==
    (Searched /\ ~last.raised) =>
        LET moves == get_valid_moves_on_board(last.pre, last.player)
        IN  /\ last.move = None => moves = <<>>
            /\ last.move # None => last.move \in Elems(moves)

\* C10 (terminal correctness of the search): is_terminal(board) completes
\* without an error on every board, and is true iff neither player has a legal
\* move; a search that reaches the terminal test therefore completes too.
C10_IsTerminalCompletes ==
    /\ ~is_terminal(board).raised
    /\ is_terminal(board).ret <=>
          (get_valid_moves_on_board(board, 1) = <<>>
              /\ get_valid_moves_on_board(board, 2) = <<>>)
    /\ Searched => ~last.raised

Max(S) == CHOOSE x \in S : \A y \in S : y <= x

Min(S) == CHOOSE x \in S : \A y \in S : x <= y

RECURSIVE full_minimax(_, _, _, _)
\* the value of the depth-limited game tree with no pruning, no move ordering
\* and no table: leaves, at depth 0 or where neither player can move, are
\* valued by evaluate as the search calls it; a player without a move passes
full_minimax(b, d, player, is_maximizing) ==
    LET moves == get_valid_moves_on_board(b, player)
    IN  IF d = 0 \/ (moves = <<>> /\ get_valid_moves_on_board(b, 3 - player) = <<>>)
        THEN evaluate(b, player)
        ELSE IF moves = <<>>
             THEN full_minimax(b, d - 1, 3 - player, ~is_maximizing)
        ELSE LET vals == {full_minimax(simulate_move(b, moves[k], player), d - 1,
                                       3 - player, ~is_maximizing) :
                             k \in 1 .. Len(moves)}
             IN  IF is_maximizing THEN Max(vals) ELSE Min(vals)

\* C5 (pruning soundness): the score at the root of a search that returns is
\* the score of full minimax of the same depth with the same evaluator.
C5_ScoreIsFullMinimax ==
    (Searched /\ ~last.raised) =>
        last.score = full_minimax(last.pre, depth, last.player, TRUE)

\* C6 (evaluator perspective): every static evaluation a search makes is
\* taken from the perspective of the root player, whatever the ply.
C6_EvaluatedForRootPlayer ==
    Searched => last.evals \subseteq {last.player}

\* C7 (search determinism): a search on an instance whose table earlier
\* searches have filled gives the move and the score that the same call gives
\* on a fresh instance.
C7_SameAsFreshInstance ==
    Searched =>
        LET fresh == get_best_move(EmptyTT, last.pre, depth, last.player)
        IN  /\ last.raised = fresh.raised
            /\ ~last.raised => last.move = fresh.move /\ last.score = fresh.score

\* the position of a cell in row-major order
RowMajorIndex(m) == m[1] * N + m[2]

Ascending(moves) ==
    \A i \in 1 .. Len(moves), j \in 1 .. Len(moves) :
        i < j => RowMajorIndex(moves[i]) < RowMajorIndex(moves[j])

\* C11 (order of the legal moves): get_valid_moves_on_board and
\* get_valid_moves list the legal moves in strictly ascending row-major order,
\* hence without duplicates; on the start position for player 1 the list is
\* (2,3), (3,2), (4,5), (5,4).
C11_MovesInRowMajorOrder ==
    /\ \A player \in Players :
          \A on_board \in {get_valid_moves_on_board(board, player)},
             moves \in {get_valid_moves(board, player)} :
              Ascending(on_board) /\ Ascending(moves)
    /\ board = StartBoard =>
          /\ get_valid_moves_on_board(board, 1)
                = << <<2, 3>>, <<3, 2>>, <<4, 5>>, <<5, 4>> >>
          /\ get_valid_moves(board, 1) = << <<2, 3>>, <<3, 2>>, <<4, 5>>, <<5, 4>> >>

\* some moves into a game a player has two legal moves in one row, the earlier
\* one in the later column of the two, and a legal move in a later row
C11_Witness ==
    /\ applied > scenario.cut
    /\ \E player \in Players :
          LET moves == get_valid_moves_on_board(board, player)
          IN  \E i, j, k \in 1 .. Len(moves) :
                 /\ i < j /\ j < k
                 /\ moves[i][1] = moves[j][1]
                 /\ moves[j][1] < moves[k][1]
                 /\ moves[k][2] < moves[i][2]

\* C12 (simulation leaves its argument alone): simulate_move_on_board, for
\* every (row, col, player) it is called with, returns a board none of whose
\* rows is a row of the argument, and the argument holds after the call what it
\* held before, cell for cell.
C12_SimulationCopies ==
    last.op = "simulate_move_on_board" =>
        /\ last.arg = last.pre
        /\ board = last.pre
        /\ ~last.shared

\* a simulated move has returned a board that differs from its argument in
\* the placed disc and in flipped discs
C12_Witness ==
    /\ last.op = "simulate_move_on_board"
    /\ last.out # last.pre
    /\ DiscsOf(last.out, last.player) >= DiscsOf(last.pre, last.player) + 2
    /\ last.arg = last.pre

\* C13 (no recursion at or below depth 0): a search started with depth zero
\* or negative returns, with no move, the static evaluation of the board it
\* was started on.
C13_NonPositiveDepthIsStatic ==
    (Searched /\ depth <= 0) =>
        /\ ~last.raised
        /\ last.move = None
        /\ last.score = evaluate(last.pre, last.player)

(***************************************************************************)
(* The front ends: the terminal loops (src/terminal_ui.py,                 *)
(* src/play_vs_ai.py), the web routes (src/app.py) and the window          *)
(* (src/gui.py).  ui.ai_player = 0 is a game of two humans.                *)
(***************************************************************************)
\* difficulty_map: "easy"
easy == 2

\* OthelloAI(game, difficulty=4) of a hint
hint_difficulty == 4

\* game.current_player = 3 - game.current_player, and nothing else
turn_after_move_no_skip(b, player) == 3 - player

\* app.py make_move / ai_move after the move: switch the player, and switch
\* back when the new player has no valid move and the game is not over
turn_after_move(b, player) ==
    IF get_valid_moves(b, 3 - player) = <<>> /\ ~is_game_over(b)
    THEN player
    ELSE 3 - player

\* what is entered or clicked: the legal moves and an occupied cell
PlayInputs == SearchInputs \cup {<<3, 3>>}

AiToMove == ui.ai_player # 0 /\ current_player = ui.ai_player

\* a hint of the web page or the window: a search of a new OthelloAI
Hint ==
    /\ ~Opening(scenario)
    /\ searches < MaxSearches
    /\ searches' = searches + 1
    /\ \E r \in {get_best_move(EmptyTT, board, hint_difficulty, current_player)},
          after \in {board_after_search(board, hint_difficulty, current_player)} :
           /\ board' = after
           /\ last' = [Call("get_best_move", current_player, 0, 0, board,
                            ~r.raised, after, r)
                          EXCEPT !.searched = [board |-> after,
                                               current_player |-> current_player]]
    /\ UNCHANGED <<current_player, applied, tt, depth, has_helper, scenario, ui>>

\* ---- play_terminal and play_vs_ai ----
\* an AttributeError of the search ends the program
Crashed == last.op = "get_best_move" /\ last.raised

LoopSkip == ui.kind = "terminal" /\ ~Crashed /\ SkipTurn

LoopHumanTurn ==
    /\ ui.kind = "terminal" /\ ~Crashed /\ ~AiToMove
    /\ Prompting
    /\ \E m \in PlayInputs : EnterMove(m[1], m[2])

\* 'h' at the prompt: ai.get_best_move(human_player)
LoopHint ==
    /\ ui.kind = "terminal" /\ ~Crashed /\ ui.ai_player # 0 /\ ~AiToMove
    /\ Prompting
    /\ searches < MaxSearches
    /\ searches' = searches + 1
    /\ \E r \in {get_best_move(tt, board, depth, current_player)},
          after \in {board_after_search(board, depth, current_player)} :
           /\ tt' = r.tt
           /\ board' = after
           /\ last' = [Call("get_best_move", current_player, 0, 0, board,
                            ~r.raised, after, r)
                          EXCEPT !.searched = [board |-> after,
                                               current_player |-> current_player]]
    /\ UNCHANGED <<current_player, applied, depth, has_helper, scenario, ui>>

\* the AI's turn: search, make_move when there is a move, switch the player
\* the AI turn of play_vs_ai: get_best_move, make_move of the move found,
\* switch player
AiTurn ==
    /\ searches' = searches + 1
    /\ \E r \in {get_best_move(tt, board, depth, current_player)},
          after \in {board_after_search(board, depth, current_player)} :
          LET moved == ~r.raised /\ r.move # None
              m == IF moved
                   THEN make_move(after, r.move[1], r.move[2], current_player)
                   ELSE [ret |-> FALSE, board |-> after]
          IN  /\ tt' = r.tt
              /\ board' = m.board
              /\ applied' = IF m.ret THEN applied + 1 ELSE applied
              /\ current_player' = IF r.raised THEN current_player
                                   ELSE 3 - current_player
              /\ last' = [Call("get_best_move", current_player, 0, 0, board,
                               ~r.raised, m.board, r)
                             EXCEPT !.searched =
                                 [board |-> after,
                                  current_player |-> current_player]]
    /\ UNCHANGED <<depth, has_helper, scenario, ui>>

LoopAiTurn ==
    /\ ui.kind = "terminal" /\ ~Crashed /\ AiToMove
    /\ Prompting
    /\ searches < MaxSearches
    /\ AiTurn

\* ---- app.py ----
\* POST /api/move
ApiMove(row, col) ==
    /\ ui.kind = "web"
    /\ MoreMoves
    /\ LET r == make_move(board, row, col, current_player)
       IN  /\ board' = r.board
           /\ applied' = IF r.ret THEN applied + 1 ELSE applied
           /\ current_player' = IF r.ret THEN turn_after_move(r.board, current_player)
                                ELSE current_player
           /\ last' = Call("make_move", current_player, row, col, board, r.ret,
                           r.board, NoSearch)
    /\ UNCHANGED <<tt, depth, has_helper, scenario, searches, ui>>

\* POST /api/ai_move
ApiAiMove ==
    /\ ui.kind = "web" /\ ui.ai_player # 0
    /\ MoreMoves
    /\ searches < MaxSearches
    /\ searches' = searches + 1
    /\ \E r \in {get_best_move(tt, board, depth, current_player)},
          after \in {board_after_search(board, depth, current_player)} :
          LET moved == ~r.raised /\ r.move # None
              m == IF moved
                   THEN make_move(after, r.move[1], r.move[2], current_player)
                   ELSE [ret |-> FALSE, board |-> after]
          IN  /\ tt' = r.tt
              /\ board' = m.board
              /\ applied' = IF m.ret THEN applied + 1 ELSE applied
              /\ current_player' = IF moved
                                   THEN turn_after_move(m.board, current_player)
                                   ELSE current_player
              /\ last' = [Call("get_best_move", current_player, 0, 0, board,
                               ~r.raised, m.board, r)
                             EXCEPT !.searched =
                                 [board |-> after,
                                  current_player |-> current_player]]
    /\ UNCHANGED <<depth, has_helper, scenario, ui>>

\* GET /api/hint
ApiHint == ui.kind = "web" /\ Hint

\* ---- gui.py ----
\* animate_move: animating, switch the player, after_move in 300 ms
animate_move(player, u) ==
    [player |-> 3 - player,
     ui |-> [u EXCEPT !.animating = TRUE, !.after_move = @ + 1]]

\* after_move: the game is over; or the player to move is skipped and
\* after_move runs again in 1500 ms; or the AI moves in 500 ms; or the valid
\* moves are shown
after_move(b, player, u) ==
    LET shown == [u EXCEPT !.animating = FALSE]
    IN  IF is_game_over(b) THEN [player |-> player, ui |-> shown]
        ELSE IF get_valid_moves(b, player) = <<>>
             THEN [player |-> 3 - player,
                   ui |-> [shown EXCEPT !.after_move = @ + 1]]
        ELSE IF u.ai_player # 0 /\ player = u.ai_player
             THEN [player |-> player, ui |-> [shown EXCEPT !.make_ai_move = @ + 1]]
        ELSE [player |-> player, ui |-> shown]

\* on_canvas_click on cell (row, col)
OnCanvasClick(row, col) ==
    /\ ui.kind = "gui"
    /\ MoreMoves
    /\ ~ui.animating
    /\ ~is_game_over(board)
    /\ ~AiToMove
    /\ LET r == make_move(board, row, col, current_player)
           a == animate_move(current_player, ui)
       IN  /\ board' = r.board
           /\ applied' = IF r.ret THEN applied + 1 ELSE applied
           /\ current_player' = IF r.ret THEN a.player ELSE current_player
           /\ ui' = IF r.ret THEN a.ui ELSE ui
           /\ last' = Call("make_move", current_player, row, col, board, r.ret,
                           r.board, NoSearch)
    /\ UNCHANGED <<tt, depth, has_helper, scenario, searches>>

\* a timer set by root.after(.., self.after_move) fires
AfterMove ==
    /\ ui.kind = "gui"
    /\ ui.after_move > 0
    /\ LET a == after_move(board, current_player,
                           [ui EXCEPT !.after_move = @ - 1])
       IN  /\ current_player' = a.player
           /\ ui' = a.ui
    /\ last' = Call("after_move", current_player, 0, 0, board, TRUE, board,
                    NoSearch)
    /\ UNCHANGED <<board, applied, tt, depth, has_helper, scenario, searches>>

\* a timer set by root.after(500, self.make_ai_move) fires
MakeAiMove ==
    /\ ui.kind = "gui"
    /\ ui.make_ai_move > 0
    /\ MoreMoves
    /\ searches < MaxSearches
    /\ LET fired == [ui EXCEPT !.make_ai_move = @ - 1]
       IN  IF ui.animating
           THEN /\ ui' = fired
                /\ last' = Call("make_ai_move", current_player, 0, 0, board,
                                FALSE, board, NoSearch)
                /\ UNCHANGED <<board, current_player, applied, tt, searches>>
           ELSE /\ searches' = searches + 1
                /\ \E r \in {get_best_move(tt, board, depth, current_player)},
                      after \in {board_after_search(board, depth, current_player)} :
                      LET moved == ~r.raised /\ r.move # None
                          m == IF moved
                               THEN make_move(after, r.move[1], r.move[2],
                                              current_player)
                               ELSE [ret |-> FALSE, board |-> after]
                          a == IF r.raised
                               THEN [player |-> current_player, ui |-> fired]
                               ELSE IF moved
                                    THEN animate_move(current_player, fired)
                               ELSE after_move(after, 3 - current_player, fired)
                      IN  /\ tt' = r.tt
                          /\ board' = m.board
                          /\ applied' = IF m.ret THEN applied + 1 ELSE applied
                          /\ current_player' = a.player
                          /\ ui' = a.ui
                          /\ last' = [Call("get_best_move", current_player, 0,
                                           0, board, ~r.raised, m.board, r)
                                         EXCEPT !.searched =
                                             [board |-> after,
                                              current_player |-> current_player]]
    /\ UNCHANGED <<depth, has_helper, scenario>>

\* show_hint
ShowHint ==
    /\ ui.kind = "gui"
    /\ ~ui.animating
    /\ ~is_game_over(board)
    /\ ~AiToMove
    /\ Hint

\* The games the front ends are looked at in: the start position; the first
\* game with five, three and two empty cells left; the second game with two
\* empty cells left.  With two cells left in the first game the player to move
\* has no move.
PlayCuts ==
    {[script |-> 1, cut |-> 0], [script |-> 1, cut |-> 55],
     [script |-> 1, cut |-> 57], [script |-> 1, cut |-> 58],
     [script |-> 2, cut |-> 58]}

\* A front end in the middle of a game.  Against the AI, the terminal loop and
\* the window start from the start position, where the AI has not moved yet;
\* the web routes let the client move for either side.  The window has the
\* AI's move scheduled when it is the AI's turn.  Only the terminal loop is
\* ever at rest with a player to move who has no move.
InitPlay ==
    /\ scenario \in PlayCuts
    /\ has_helper \in BOOLEAN
    /\ \E kind \in {"terminal", "web", "gui"}, ai_player \in 0 .. 2 :
          /\ ai_player # 0 /\ kind # "web" => scenario.cut = 0
          /\ kind # "terminal" =>
                get_valid_moves(ScenarioBoard(scenario),
                                ScenarioPlayer(scenario)) # <<>>
          /\ ui = [kind |-> kind, ai_player |-> ai_player, animating |-> FALSE,
                   after_move |-> 0,
                   make_ai_move |-> IF kind = "gui" /\ ai_player # 0
                                        /\ ai_player = ScenarioPlayer(scenario)
                                    THEN 1 ELSE 0]
          /\ depth \in IF kind = "web" /\ ai_player # 0 THEN {0, easy} ELSE {easy}
    /\ InitCommon

NextPlay ==
    \/ LoopSkip
    \/ LoopHumanTurn
    \/ LoopHint
    \/ LoopAiTurn
    \/ \E m \in PlayInputs : ApiMove(m[1], m[2])
    \/ ApiAiMove
    \/ ApiHint
    \/ \E m \in PlayInputs : OnCanvasClick(m[1], m[2])
    \/ AfterMove
    \/ MakeAiMove
    \/ ShowHint

SpecPlay == InitPlay /\ [][NextPlay]_vars

\* C14 (turn-skip policy of the front ends): a player who is asked for a move
\* or searched for while the game is not over has a legal move; between two
\* requests of the web routes, and in the window whenever it takes clicks, the
\* game is over or the player to move has a legal move.
C14_PromptedPlayerHasMove ==
    /\ (last.op \in {"make_move", "get_best_move"} /\ ~is_game_over(last.pre)) =>
          get_valid_moves(last.pre, last.player) # <<>>
    /\ (ui.kind = "web" \/ (ui.kind = "gui" /\ ~ui.animating)) =>
          (is_game_over(board) \/ get_valid_moves(board, current_player) # <<>>)

\* a web move after which the opponent cannot move and the game goes on: the
\* turn is back with the player who moved
C14_Witness ==
    /\ ui.kind = "web"
    /\ last.op = "make_move" /\ last.ret
    /\ ~is_game_over(board)
    /\ get_valid_moves(board, 3 - last.player) = <<>>
    /\ current_player = last.player


key_board(bk) == [r \in Rng |-> [c \in Rng |-> bk[r * N + c + 1]]]

\* C16 (cache correctness): every entry of the table, stored under
\* (board, player, depth, kind), holds the score that full minimax of that
\* node gives, whatever window the node was searched with.
C16_EntriesAreFullMinimax ==
    \A tt_key \in DOMAIN tt :
        tt[tt_key][1] = full_minimax(key_board(tt_key[1]), tt_key[3],
                                     tt_key[2], tt_key[4])

Filled(n) == [tt_key \in {Elsewhere} |-> <<n, None>>]

\* the first game with three empty cells left
TableCuts == {[script |-> 1, cut |-> 57]}

\* An OthelloAI of difficulty 0, whose every search is one visit of lines
\* 37-47 and so at most one store, late in a session: the table is one entry
\* short of full, full, or one entry over.
InitTable ==
    /\ scenario \in TableCuts
    /\ depth = 0
    /\ has_helper = FALSE
    /\ ui = NoUI
    /\ board = ScenarioBoard(scenario)
    /\ current_player = ScenarioPlayer(scenario)
    /\ applied = scenario.cut
    /\ tt \in {Filled(max_tt_size - 1), Filled(max_tt_size),
               Filled(max_tt_size + 1)}
    /\ searches = 0
    /\ last = NoCall

SpecTable == InitTable /\ [][NextSearch]_vars

\* C18 (bounded cache): the table never holds more than max_tt_size + 1
\* entries; a store leaves every entry in place or, exactly when the table
\* held more than max_tt_size entries, leaves nothing but the entry it stores.
C18_BoundedCache ==
    [][/\ len(tt') <= max_tt_size + 1
       /\ \/ \A tt_key \in DOMAIN tt :
                tt_key \in DOMAIN tt' /\ tt'[tt_key] = tt[tt_key]
          \/ /\ len(tt) > max_tt_size
             /\ Elsewhere \notin DOMAIN tt'
             /\ Cardinality(DOMAIN tt') = 1
       /\ (len(tt) > max_tt_size /\ tt' # tt) => len(tt') = 1]_vars

\* the table was cleared by the store of the last search
C18_Witness ==
    /\ Searched
    /\ ~last.raised
    /\ DOMAIN tt = {<<board_key(last.pre), last.player, depth, TRUE>>}

(***************************************************************************)
(* The pass, the ordering of the moves and ties.                           *)
(***************************************************************************)
\* the search of this step starts at a node with depth left where the player
\* to move has no move and the opponent has one
PassAtRoot ==
    /\ last'.op = "get_best_move"
    /\ searches' = searches + 1
    /\ depth > 0
    /\ <<board_key(board), last'.player, depth, TRUE>> \notin DOMAIN tt
    /\ get_valid_moves_on_board(board, last'.player) = <<>>
    /\ get_valid_moves_on_board(board, 3 - last'.player) # <<>>

explored(b, player, is_maximizing) ==
    sort_moves(get_valid_moves_from_board(b, player), is_maximizing)

\* descending weight at a Max node, ascending at a Min node, and moves of
\* equal weight in row-major order
InOrder(moves, is_maximizing) ==
    \A i \in 1 .. Len(moves), j \in 1 .. Len(moves) :
        i < j =>
            LET wi == weight(moves[i][1], moves[i][2])
                wj == weight(moves[j][1], moves[j][2])
            IN  /\ IF is_maximizing THEN wi >= wj ELSE wi <= wj
                /\ wi = wj => RowMajorIndex(moves[i]) < RowMajorIndex(moves[j])

\* the key under which the node reached by moves[k] is looked up and stored
child_key(b, player, d, is_maximizing, moves, k) ==
    <<board_key(simulate_move(b, moves[k], player)), 3 - player, d - 1,
      ~is_maximizing>>

\* The entry (score, move) of a node that explored its moves: the moves were
\* taken in order, move is one of them, its score is the entry's score, and
\* every move taken before it scored strictly worse.  The score of a move is
\* read from the entry of the node it leads to (a node that passes has none).
FirstBestInOrder(t, tt_key) ==
    LET b == key_board(tt_key[1])
        player == tt_key[2]
        d == tt_key[3]
        is_maximizing == tt_key[4]
        moves == explored(b, player, is_maximizing)
        key(k) == child_key(b, player, d, is_maximizing, moves, k)
    IN  /\ InOrder(moves, is_maximizing)
        /\ Elems(moves) = Elems(get_valid_moves_on_board(b, player))
        /\ \E k \in 1 .. Len(moves) :
              /\ moves[k] = t[tt_key][2]
              /\ key(k) \in DOMAIN t => t[key(k)][1] = t[tt_key][1]
              /\ \A j \in 1 .. (k - 1) :
                     key(j) \in DOMAIN t =>
                         IF is_maximizing THEN t[key(j)][1] < t[tt_key][1]
                         ELSE t[key(j)][1] > t[tt_key][1]

\* The searches whose order of moves and ties are looked at: near the start
\* position, where moves of equal weight reach the same score, and in the
\* first game with three empty cells left, where a player has to pass.
OrderCuts == {[script |-> 1, cut |-> 0], [script |-> 1, cut |-> 57]}

InitOrder ==
    /\ scenario \in OrderCuts
    /\ depth \in 0 .. (IF Opening(scenario) THEN OpeningDepth ELSE MaxDepth)
    /\ has_helper \in BOOLEAN
    /\ ui = NoUI
    /\ InitCommon

\* the game is played to some position, and then searched
NextOrder ==
    \/ searches = 0 /\ SkipTurn
    \/ searches = 0 /\ Prompting /\ \E m \in SearchInputs : EnterMove(m[1], m[2])
    \/ \E player \in Players : GetBestMove(player)

SpecOrder == InitOrder /\ [][NextOrder]_vars

\* C20 (move ordering and tie-breaking): a Max node takes its moves in
\* descending weight order and a Min node in ascending order, moves of equal
\* weight in row-major order, and the move a node keeps is the first one taken
\* that reaches the node's score: a later move with an equal score never
\* replaces it.
C20_FirstExploredWinsTies ==
    \A tt_key \in DOMAIN tt :
        tt[tt_key][2] # None => FirstBestInOrder(tt, tt_key)

\* a search returned the first of two moves of equal weight that both reach
\* the score of the root
C20_Witness ==
    /\ Searched
    /\ ~last.raised
    /\ last.move # None
    /\ LET moves == explored(last.pre, last.player, TRUE)
           key(k) == child_key(last.pre, last.player, depth, TRUE, moves, k)
       IN  \E j \in 1 .. Len(moves), k \in 1 .. Len(moves) :
              /\ j < k
              /\ moves[j] = last.move
              /\ weight(moves[j][1], moves[j][2]) = weight(moves[k][1], moves[k][2])
              /\ key(j) \in DOMAIN tt /\ key(k) \in DOMAIN tt
              /\ tt[key(j)][1] = last.score
              /\ tt[key(k)][1] = last.score

(***************************************************************************)
(* The search and the live game.                                           *)
(***************************************************************************)
\* C21 (a search has no effect on the live game): when get_best_move has
\* returned or raised, of the game's own OthelloAI or of the temporary one of
\* a hint, game.board is cell for cell what it was before the call, and
\* game.current_player is the player it was; a front end that then plays the
\* move found changes both only through make_move.
C21_SearchLeavesGameAlone ==
    Searched =>
        /\ last.searched.board = last.pre
        /\ last.raised \/ last.move = None => board = last.pre
        /\ board = last.pre => current_player = last.searched.current_player

\* a hint that explored moves and returned one
C21_Witness ==
    /\ Searched
    /\ ~last.raised
    /\ last.move # None
    /\ ui.kind \in {"web", "gui"}
    /\ applied = scenario.cut
    /\ board = last.pre
    /\ last.searched.board = board

(***************************************************************************)
(* Moves the rules reject.                                                 *)
(***************************************************************************)
\* C22 (an illegal move is refused without effect): make_move of a move that
\* is_valid_move rejects, on an occupied cell or with no line to capture,
\* returns False and leaves the board and current_player as they were; it
\* returns True only for a move that was legal, and then the move is on the
\* board.
C22_IllegalMoveRefused ==
    last.op = "make_move" =>
        /\ ~is_valid_move(last.pre, last.row, last.col, last.player) =>
                /\ ~last.ret
                /\ board = last.pre
                /\ current_player = last.player
        /\ last.ret =>
                /\ is_valid_move(last.pre, last.row, last.col, last.player)
                /\ last.pre[last.row][last.col] = 0
                /\ board[last.row][last.col] = last.player
                /\ board # last.pre

\* a move on an empty cell that captures nothing was asked for after a move
\* that was applied
C22_Witness ==
    /\ last.op = "make_move"
    /\ ~last.ret
    /\ last.pre[last.row][last.col] = 0
    /\ applied > scenario.cut

(***************************************************************************)
(* Coordinates outside the board.  play_terminal turns the line typed into *)
(* two integers and hands them to make_move; the web page's /api/move      *)
(* hands over the row and col of the request.  Nothing tests them against  *)
(* the board before board[row][col] is read.                               *)
(***************************************************************************)
\* the integers tried as row and col: the board's own and those around them,
\* on both sides of where list indexing starts to raise
Coords == (0 - N - 1) .. N

\* the games coordinates are tried in: the start position, and the first game
\* after 12 moves and with two empty cells left, where the player to move is
\* skipped
CoordCuts ==
    {[script |-> 1, cut |-> 0], [script |-> 1, cut |-> 12],
     [script |-> 1, cut |-> 58]}

InitCoords ==
    /\ scenario \in CoordCuts
    /\ depth = 0
    /\ has_helper = FALSE
    /\ ui = NoUI
    /\ InitCommon

\* make_move(row, col, game.current_player) for any two integers: the read of
\* self.board[row][col] in is_valid_move raises IndexError before anything is
\* written, and the loop reports an invalid input and asks again
EnterCoords(row, col) ==
    IF IndexError(row) \/ IndexError(col)
    THEN /\ last' = Call("make_move", current_player, row, col, board, FALSE,
                          board, [NoSearch EXCEPT !.raised = TRUE])
         /\ UNCHANGED <<board, current_player, applied, tt, depth, has_helper,
                        scenario, searches, ui>>
    ELSE EnterMove(row, col)

NextCoords ==
    \/ SkipTurn
    \/ Prompting /\ ~Refused /\ \E row \in Coords, col \in Coords : EnterCoords(row, col)

SpecCoords == InitCoords /\ [][NextCoords]_vars

\* C23 (a coordinate outside the board is never accepted): for a row or a col
\* outside 0 .. 7, negative ones included, make_move does not return True
\* (is_valid_move did not) and no disc is placed or flipped.
C23_OutsideNeverAccepted ==
    (/\ last.op = "make_move"
     /\ ~in_range(last.row, last.col)) =>
        /\ ~last.ret
        /\ board = last.pre

(***************************************************************************)
(* Whole games at the terminal, from the start position to the end:        *)
(* play_terminal (ui.ai_player = 0), where the two players type the moves  *)
(* of one of the three games, and play_vs_ai, where the human types the    *)
(* first of the valid moves printed.  Either may type an occupied cell     *)
(* first.  OthelloGame is the repository's, without has_any_move_on_board. *)
(***************************************************************************)
InitGame ==
    /\ scenario \in {[script |-> s, cut |-> 0] : s \in 1 .. Len(Scripts)}
    /\ has_helper = FALSE
    /\ \E ai_player \in 0 .. 2 :
          /\ ai_player # 0 => scenario.script = 1
          /\ ui = [NoUI EXCEPT !.kind = "terminal", !.ai_player = ai_player]
    /\ depth = easy
    /\ InitCommon

\* valid_moves of the loop is not empty: a move is asked for
GamePrompting ==
    /\ ui.kind = "terminal" /\ ~Crashed
    /\ ~is_game_over(board)
    /\ get_valid_moves(board, current_player) # <<>>

\* the move typed at the prompt
GameInputs ==
    IF ui.ai_player = 0
    THEN {<<Scripts[scenario.script][k][1], Scripts[scenario.script][k][2]>> :
            k \in {applied + 1} \cap (1 .. Len(Scripts[scenario.script]))}
    ELSE {get_valid_moves(board, current_player)[1]}

GameLegalMove ==
    /\ GamePrompting /\ ~AiToMove
    /\ \E m \in GameInputs :
          /\ is_valid_move(board, m[1], m[2], current_player)
          /\ EnterMove(m[1], m[2])

\* (3, 3) holds a disc from the start
GameRefusedMove ==
    /\ GamePrompting /\ ~AiToMove /\ ~Refused
    /\ EnterMove(3, 3)

GameAiTurn ==
    /\ GamePrompting /\ AiToMove
    /\ AiTurn

NextGame ==
    \/ LoopSkip
    \/ GameLegalMove
    \/ GameRefusedMove
    \/ GameAiTurn

\* the loop is a sequential program and goes on while it can; a player who is
\* asked for a move types a legal one in the end
SpecGame ==
    /\ InitGame /\ [][NextGame]_vars
    /\ WF_vars(LoopSkip) /\ WF_vars(GameLegalMove) /\ WF_vars(GameAiTurn)

\* C24 (a game at the terminal ends): from the start position, when every
\* player who is asked for a move types a legal one in the end, is_game_over()
\* is true in the end; no more than 60 moves are applied, and no turn is
\* skipped right after a skipped turn while the game is not over.
C24_GameEnds ==
    /\ <>is_game_over(board)
    /\ [](applied <= N * N - 4)
    /\ [](last.op = "skip" /\ ~is_game_over(board) =>
             get_valid_moves(board, current_player) # <<>>)

(***************************************************************************)
(* The instance methods and their static copies.                           *)
(***************************************************************************)
\* C25 (the static helpers agree with the instance methods): on the same
\* board, for both players, is_valid_move and is_valid_move_on_board accept
\* the same cells, get_valid_moves and get_valid_moves_on_board are the same
\* list, and for every legal move the board make_move leaves is the board
\* simulate_move_on_board returns.
C25_StaticAgreesWithInstance ==
    \A player \in Players :
        /\ get_valid_moves(board, player) = get_valid_moves_on_board(board, player)
        /\ \A m \in Cells :
              /\ is_valid_move(board, m[1], m[2], player)
                    <=> is_valid_move_on_board(board, m[1], m[2], player)
              /\ is_valid_move(board, m[1], m[2], player) =>
                    \A made \in {make_move(board, m[1], m[2], player)} :
                        /\ made.ret
                        /\ made.board =
                              simulate_move_on_board(board, m[1], m[2], player).board

\* some moves into a game a player has a legal move that flips discs in more
\* than one direction, and an empty cell next to a disc that is not legal
C25_Witness ==
    /\ applied > scenario.cut
    /\ \E player \in Players, m \in Cells :
          /\ is_valid_move(board, m[1], m[2], player)
          /\ is_valid_move_on_board(board, m[1], m[2], player)
          /\ \E made \in {make_move(board, m[1], m[2], player).board} :
                /\ made = simulate_move_on_board(board, m[1], m[2], player).board
                /\ made # board
                /\ DiscsOf(made, player) >= DiscsOf(board, player) + 3
    /\ \E player \in Players, m \in Cells :
          /\ board[m[1]][m[2]] = 0
          /\ ~is_valid_move(board, m[1], m[2], player)
          /\ ~is_valid_move_on_board(board, m[1], m[2], player)
=============================================================================
